---- MODULE Spec2Model ----
(***************************************************************************)
(* io_wrapper_statistics: IOStatWrapper<T, C>, a decorator around an I/O   *)
(* object that forwards read/write/seek/flush to the wrapped object and    *)
(* keeps call counters, byte totals, a shadow cursor and an operation log. *)
(*                                                                         *)
(* The wrapped object T is the one of tests/wrapper_test.rs, a             *)
(* std::io::Cursor over a fixed byte slice, behind a fault injector: T is  *)
(* generic in lib.rs and every wrapped call may also return Err(kind).     *)
(* The log container C is Vec<IopInfoPair>.                                *)
(*                                                                         *)
(* u64/usize/i64 are scaled to Bits-bit integers: unsigned values are      *)
(* 0..MaxU, signed values MinI..MaxI.  Rust's `+` on integers aborts the   *)
(* call when the build has debug assertions (overflow checks) and wraps    *)
(* otherwise; the build profile is the variable debug_assertions.          *)
(***************************************************************************)
EXTENDS Integers, Sequences, FiniteSets, TLC

\* ---------------------------------------------------------------- bounds
Bits == 5              \* scaled width of u64 / usize / i64
MaxOps == 3            \* calls made by the caller in one behaviour

\* the length of init_data_buf in tests/wrapper_test.rs
BufLen == 8

Modulus == 2 ^ Bits
MaxU == Modulus - 1                \* u64::MAX
MaxI == (Modulus \div 2) - 1       \* i64::MAX
MinI == 0 - (Modulus \div 2)       \* i64::MIN

InitData == [i \in 1..BufLen |-> i - 1]    \* [0, 1, 2, 3, 4, 5, 6, 7]

\* ------------------------------------------------------- io::Result values
Ok(n) == [ok |-> TRUE, val |-> n, kind |-> "none"]
Err(k) == [ok |-> FALSE, val |-> 0, kind |-> k]

\* ErrorKinds the wrapped object can be made to fail with
ErrorKinds == {"Interrupted", "WouldBlock"}
Faults == {"none"} \cup ErrorKinds

\* ----------------------------------------------------------- SeekFrom
Start(n) == [whence |-> "Start", off |-> n]
Current(d) == [whence |-> "Current", off |-> d]
End(d) == [whence |-> "End", off |-> d]
NoPos == [whence |-> "None", off |-> 0]

\* ----------------------------------------------------------- IopActions / IopResults
IopActions_Read(size) == [op |-> "Read", size |-> size, pos |-> NoPos]
IopActions_Seek(pos) == [op |-> "Seek", size |-> 0, pos |-> pos]
IopActions_Write(size) == [op |-> "Write", size |-> size, pos |-> NoPos]
\* a flush logged under the write family
IopActions_Flush_as_write == [op |-> "Write", size |-> 0, pos |-> NoPos]
IopActions_Flush == [op |-> "Flush", size |-> 0, pos |-> NoPos]

\* a result that keeps whether the call failed and drops the error kind
IopResults_coarse(op, res) ==
    [op |-> op,
     res |-> IF res.ok THEN res ELSE [ok |-> FALSE, val |-> 0, kind |-> "Other"]]

\* IopResults::Read(Ok(n)) is [op |-> "Read", res |-> Ok(n)]; only the
\* ErrorKind of a failure is kept
IopResults(op, res) == [op |-> op, res |-> res]

IopInfoPair(action, result) == [action |-> action, result |-> result]

\* ----------------------------------------------------------- integer arithmetic
Min(a, b) == IF a < b THEN a ELSE b

\* Rust `a + b` on an unsigned Bits-bit type: v is the wrapped sum, of is
\* whether the mathematical sum left the type
AddU(a, b) == [v |-> (a + b) % Modulus, of |-> (a + b) > MaxU]
\* Rust `a - b` on an unsigned type
SubU(a, b) == [v |-> (a - b + Modulus) % Modulus, of |-> a < b]

\* ----------------------------------------------------------- SuccessFailureCounter
\* SuccessFailureCounter::default()
SuccessFailureCounter_default == [success_ctr |-> 0, failure_ctr |-> 0]

\* a success that is not counted
increment_success_lost(c) == [v |-> c, of |-> FALSE]

\* Each mutator returns the counter after the call (v) and whether its `+`
\* overflowed (of).
increment_success(c) ==
    LET s == AddU(c.success_ctr, 1)
    IN  [v |-> [c EXCEPT !.success_ctr = s.v], of |-> s.of]

add_successes(c, amount) ==
    LET s == AddU(c.success_ctr, amount)
    IN  [v |-> [c EXCEPT !.success_ctr = s.v], of |-> s.of]

success_ctr(c) == c.success_ctr

\* a failure counted as a success
increment_failure_as_success(c) == increment_success(c)

increment_failure(c) ==
    LET s == AddU(c.failure_ctr, 1)
    IN  [v |-> [c EXCEPT !.failure_ctr = s.v], of |-> s.of]

add_failures(c, amount) ==
    LET s == AddU(c.failure_ctr, amount)
    IN  [v |-> [c EXCEPT !.failure_ctr = s.v], of |-> s.of]

failure_ctr(c) == c.failure_ctr

\* self.success_ctr + self.failure_ctr
attempt_ctr(c) == AddU(c.success_ctr, c.failure_ctr)

\* ----------------------------------------------------------- abs_sign_tuple
\* i64::signum
signum(d) == IF d > 0 THEN 1 ELSE IF d = 0 THEN 0 ELSE 0 - 1

\* i64::abs: the two's complement negation of a negative value, which for
\* i64::MIN is i64::MIN again (or an abort under overflow checks)
abs(d) == IF d >= 0 THEN d ELSE IF d = MinI THEN MinI ELSE 0 - d

\* U::from(x): None for a value the unsigned type cannot hold
U_from(x) == IF x >= 0 /\ x <= MaxU THEN [some |-> TRUE, v |-> x]
                                    ELSE [some |-> FALSE, v |-> 0]

\* SignedAbsResult: sign is "Negative", "Zero" or "Positive", mag the
\* unsigned magnitude, panic whether an unwrap() or `+` aborted
SignedAbsResult(sign, m) == [sign |-> sign, mag |-> m.v, panic |-> ~m.some]

\* abs_sign_tuple without the arm for the minimum value
abs_sign_tuple_negating(signed_number) ==
    IF signum(signed_number) = 1
    THEN SignedAbsResult("Positive", U_from(abs(signed_number)))
    ELSE IF signum(signed_number) = 0
    THEN [sign |-> "Zero", mag |-> 0, panic |-> FALSE]
    ELSE SignedAbsResult("Negative", U_from(abs(signed_number)))

abs_sign_tuple(signed_number) ==
    IF signum(signed_number) = 1
    THEN SignedAbsResult("Positive", U_from(abs(signed_number)))
    ELSE IF signum(signed_number) = 0
    THEN [sign |-> "Zero", mag |-> 0, panic |-> FALSE]
    ELSE IF signed_number = MinI
         THEN LET m == U_from(MaxI)
                  s == AddU(m.v, 1)
              IN  [sign |-> "Negative", mag |-> s.v, panic |-> ~m.some \/ s.of]
         ELSE SignedAbsResult("Negative", U_from(abs(signed_number)))

\* ----------------------------------------------------------- the wrapped object
\* std::io::Cursor<&mut [u8]>: a position and the bytes of the slice.
\* Every operation returns the object after the call (io), the io::Result
\* (result) and the bytes it put into the caller's buffer (buf).
Cursor_new(data) == [pos |-> 0, data |-> data]

Cursor_read(io, len) ==
    LET from == Min(io.pos, Len(io.data))
        n == Min(len, Len(io.data) - from)
    IN  [io |-> [io EXCEPT !.pos = io.pos + n],
         result |-> Ok(n),
         buf |-> SubSeq(io.data, from + 1, from + n)]

Cursor_write(io, buf) ==
    LET from == Min(io.pos, Len(io.data))
        amt == Min(Len(buf), Len(io.data) - from)
    IN  [io |-> [pos |-> io.pos + amt,
                 data |-> [i \in 1..Len(io.data) |->
                              IF i > from /\ i <= from + amt
                              THEN buf[i - from] ELSE io.data[i]]],
         result |-> Ok(amt),
         buf |-> <<>>]

\* u64::checked_add_signed
checked_add_signed(base, offset) == U_from(base + offset)

Cursor_seek(io, pos) ==
    IF pos.whence = "Start"
    THEN [io |-> [io EXCEPT !.pos = pos.off], result |-> Ok(pos.off), buf |-> <<>>]
    ELSE LET base == IF pos.whence = "End" THEN Len(io.data) ELSE io.pos
             n == checked_add_signed(base, pos.off)
         IN  IF n.some
             THEN [io |-> [io EXCEPT !.pos = n.v], result |-> Ok(n.v), buf |-> <<>>]
             ELSE [io |-> io, result |-> Err("InvalidInput"), buf |-> <<>>]

Cursor_flush(io) == [io |-> io, result |-> Ok(0), buf |-> <<>>]

\* A wrapped call that the environment makes fail leaves the object as it was
Failed(io, fault) == [io |-> io, result |-> Err(fault), buf |-> <<>>]

\* self.inner_io.read(buf), .write(buf), .seek(pos), .flush()
inner_read(io, len, fault) ==
    IF fault # "none" THEN Failed(io, fault) ELSE Cursor_read(io, len)
inner_write(io, buf, fault) ==
    IF fault # "none" THEN Failed(io, fault) ELSE Cursor_write(io, buf)
inner_seek(io, pos, fault) ==
    IF fault # "none" THEN Failed(io, fault) ELSE Cursor_seek(io, pos)
inner_flush(io, fault) ==
    IF fault # "none" THEN Failed(io, fault) ELSE Cursor_flush(io)

\* ----------------------------------------------------------- state
VARIABLES
    inner_io,             \* IOStatWrapper.inner_io: the wrapped object
    iop_log,              \* IOStatWrapper.iop_log: Vec<IopInfoPair>
    read_call_counter,    \* SuccessFailureCounter<u64>
    read_byte_counter,    \* usize
    seek_call_counter,    \* SuccessFailureCounter<u64>
    seek_pos,             \* u64, the shadow cursor
    write_call_counter,   \* SuccessFailureCounter<u64>
    write_flush_counter,  \* SuccessFailureCounter<u64>
    write_byte_counter,   \* usize
    debug_assertions,     \* the build: debug assertions and overflow checks on
    panicked,             \* a call on the decorator aborted
    wrapped,              \* the decorator exists (into_inner not yet called)
    ret,                  \* what the last call returned to the caller
    inner_calls,          \* the calls the last operation made on inner_io
    twin,                 \* a copy of the wrapped object that is never wrapped
    twin_ret,             \* what the same call returned on the twin
    ctr,                  \* a SuccessFailureCounter the caller owns
    nops,                 \* calls made so far
    buffered_io,          \* a BufReader around a borrow of the decorator
    instrumented_buf_file \* a second decorator, around the BufReader

stats == <<read_call_counter, read_byte_counter, seek_call_counter, seek_pos,
           write_call_counter, write_flush_counter, write_byte_counter>>
layered == <<buffered_io, instrumented_buf_file>>
vars == <<inner_io, iop_log, stats, debug_assertions, panicked, wrapped, ret,
          inner_calls, twin, twin_ret, ctr, nops, layered>>

\* an outcome: the io::Result and the bytes delivered into the caller's buffer
Outcome(r) == [result |-> r.result, buf |-> r.buf]
NoOutcome == [result |-> Ok(0), buf |-> <<>>]
\* the call did not return: the thread panicked
Panic == [result |-> Err("panic"), buf |-> <<>>]

\* one call on the wrapped object
Call(op, size, pos, buf) == [op |-> op, size |-> size, pos |-> pos, buf |-> buf]

\* what a method run on the wrapped object leaves: the object, the io::Result,
\* the caller's bytes and the calls that reached the object
Done(io, result, buf, calls) ==
    [io |-> io, result |-> result, buf |-> buf, calls |-> calls]

\* a read that calls the wrapped object again when it was interrupted
forward_read_retrying(io, len, fault) ==
    LET r == inner_read(io, len, fault)
        again == inner_read(r.io, len, "none")
        call == Call("read", len, NoPos, <<>>)
    IN  IF ~r.result.ok /\ r.result.kind = "Interrupted"
        THEN Done(again.io, again.result, again.buf, <<call, call>>)
        ELSE Done(r.io, r.result, r.buf, <<call>>)

\* let read_result = self.inner_io.read(buf): one call, with the caller's buffer
forward_read(io, len, fault) ==
    LET r == inner_read(io, len, fault)
    IN  Done(r.io, r.result, r.buf, <<Call("read", len, NoPos, <<>>)>>)

\* let write_result = self.inner_io.write(buf)
forward_write(io, buf, fault) ==
    LET r == inner_write(io, buf, fault)
    IN  Done(r.io, r.result, r.buf, <<Call("write", Len(buf), NoPos, buf)>>)

\* let seek_result = self.inner_io.seek(pos)
forward_seek(io, pos, fault) ==
    LET r == inner_seek(io, pos, fault)
    IN  Done(r.io, r.result, r.buf, <<Call("seek", 0, pos, <<>>)>>)

\* let flush_result = self.inner_io.flush()
forward_flush(io, fault) ==
    LET r == inner_flush(io, fault)
    IN  Done(r.io, r.result, r.buf, <<Call("flush", 0, NoPos, <<>>)>>)

\* a decorator that reports a would-block failure as zero bytes moved
returned_suppressing(r, aborted) ==
    IF aborted THEN Panic
    ELSE IF ~r.result.ok /\ r.result.kind = "WouldBlock"
         THEN [result |-> Ok(0), buf |-> <<>>]
         ELSE Outcome(r)

\* the last expression of read, write, seek and flush: the wrapped object's
\* result itself, unless the call aborted before reaching it
returned(r, aborted) == IF aborted THEN Panic ELSE Outcome(r)

\* `+` aborts on overflow exactly when the build checks overflow
Aborts(of) == debug_assertions /\ of

\* starting cursors handed to IOStatWrapper::new
StartPositions == {0, MaxU}

\* IOStatWrapper::new(obj, start_seek_pos) around a fresh Cursor
new(obj, start_seek_pos) ==
    /\ inner_io = obj
    /\ iop_log = <<>>
    /\ read_call_counter = SuccessFailureCounter_default
    /\ read_byte_counter = 0
    /\ seek_call_counter = SuccessFailureCounter_default
    /\ seek_pos = start_seek_pos
    /\ write_call_counter = SuccessFailureCounter_default
    /\ write_flush_counter = SuccessFailureCounter_default
    /\ write_byte_counter = 0

\* BufReader::new(inner): an empty buffer of the given capacity; buf holds
\* the bytes of the last fill and pos counts those already handed out
BufReader_with_capacity(capacity) ==
    [buf |-> <<>>, pos |-> 0, capacity |-> capacity]

\* buffer capacities, in bytes of the BufLen-byte file
Capacities == {4, BufLen}

\* IOStatWrapper::new for the decorator around the BufReader, as a record
IOStatWrapper_new(start_seek_pos) ==
    [iop_log |-> <<>>,
     read_call_counter |-> SuccessFailureCounter_default,
     read_byte_counter |-> 0,
     seek_call_counter |-> SuccessFailureCounter_default,
     seek_pos |-> start_seek_pos,
     write_call_counter |-> SuccessFailureCounter_default,
     write_flush_counter |-> SuccessFailureCounter_default,
     write_byte_counter |-> 0,
     panicked |-> FALSE]

\* the decorator around the wrapped object and the caller's counter
InitRaw ==
    /\ \E start_seek_pos \in StartPositions : new(Cursor_new(InitData), start_seek_pos)
    /\ debug_assertions \in BOOLEAN
    /\ panicked = FALSE
    /\ wrapped = TRUE
    /\ ret = NoOutcome
    /\ inner_calls = <<>>
    /\ twin = Cursor_new(InitData)
    /\ twin_ret = NoOutcome
    /\ ctr = SuccessFailureCounter_default
    /\ nops = 0

Init ==
    /\ InitRaw
    /\ buffered_io = BufReader_with_capacity(BufLen)
    /\ instrumented_buf_file = IOStatWrapper_new(0)

\* the set-up of the examples: both decorators constructed at 0, a
\* BufReader between them
InitLayered ==
    /\ InitRaw
    /\ seek_pos = 0
    /\ \E capacity \in Capacities :
           buffered_io = BufReader_with_capacity(capacity)
    /\ instrumented_buf_file = IOStatWrapper_new(0)

\* the caller may make another call on the decorator
CanCall == wrapped /\ ~panicked /\ nops < MaxOps

\* u64::try_from(n) of a usize n
u64_try_from(n) == U_from(n)

\* a read or write that leaves the shadow cursor where it was
advance_seek_pos_forgotten(pos, n) ==
    [v |-> pos, of |-> FALSE, unwrap_none |-> FALSE]

\* self.seek_pos += u64::try_from(n).unwrap(): the conversion, then the `+`
advance_seek_pos(pos, n) ==
    LET t == u64_try_from(n)
        s == AddU(pos, t.v)
    IN  [v |-> s.v, of |-> s.of, unwrap_none |-> ~t.some]

\* a byte total that keeps the last transfer instead of the sum
add_bytes_replacing(counter, n) == [v |-> n, of |-> FALSE]

\* self.read_byte_counter += n / self.write_byte_counter += n
add_bytes(counter, n) == AddU(counter, n)

\* buffer lengths the caller reads and writes with
BufLens == {4, BufLen}
\* the calls the caller makes: every length against a working object, and
\* the longest against an object that fails with each ErrorKind
ReadInputs == (BufLens \X {"none"}) \cup ({BufLen} \X ErrorKinds)
WriteInputs == (BufLens \X {"none"}) \cup ({4} \X ErrorKinds)
\* the bytes of a write buffer of the given length
WriteBuf(len) == SubSeq(InitData, 1, len)

\* ----------------------------------------------------------- Read::read
read_through(len, fault) ==
    /\ CanCall
    /\ LET r == forward_read(inner_io, len, fault)
           read_result == r.result
           n == read_result.val
           c == IF read_result.ok THEN increment_success(read_call_counter)
                                  ELSE increment_failure(read_call_counter)
           b == add_bytes(read_byte_counter, n)
           s == advance_seek_pos(seek_pos, n)
           p1 == Aborts(c.of)
           p2 == p1 \/ (read_result.ok /\ Aborts(b.of))
           p3 == p2 \/ (read_result.ok /\ (s.unwrap_none \/ Aborts(s.of)))
       IN  /\ inner_io' = r.io
           /\ inner_calls' = r.calls
           /\ read_call_counter' = IF p1 THEN read_call_counter ELSE c.v
           /\ read_byte_counter' = IF read_result.ok /\ ~p2 THEN b.v
                                                            ELSE read_byte_counter
           /\ seek_pos' = IF read_result.ok /\ ~p3 THEN s.v ELSE seek_pos
           /\ iop_log' = IF p3 THEN iop_log
                         ELSE Append(iop_log,
                                     IopInfoPair(IopActions_Read(len),
                                                 IopResults("Read", read_result)))
           /\ panicked' = p3
           /\ ret' = returned(r, p3)
           /\ twin' = inner_read(twin, len, fault).io
           /\ twin_ret' = Outcome(inner_read(twin, len, fault))
    /\ nops' = nops + 1
    /\ UNCHANGED <<seek_call_counter, write_call_counter, write_flush_counter,
                   write_byte_counter, debug_assertions, wrapped, ctr>>

\* a read the caller makes on the decorator itself
read(len, fault) == read_through(len, fault) /\ UNCHANGED layered

\* ----------------------------------------------------------- the layered examples
\* Read::read of the decorator around the BufReader, on its record: the
\* same statements, applied to the outcome the BufReader gave
IOStatWrapper_read(w, len, read_result) ==
    LET n == read_result.val
        c == IF read_result.ok THEN increment_success(w.read_call_counter)
                               ELSE increment_failure(w.read_call_counter)
        b == add_bytes(w.read_byte_counter, n)
        s == advance_seek_pos(w.seek_pos, n)
        p1 == Aborts(c.of)
        p2 == p1 \/ (read_result.ok /\ Aborts(b.of))
        p3 == p2 \/ (read_result.ok /\ (s.unwrap_none \/ Aborts(s.of)))
    IN  [w EXCEPT
           !.read_call_counter = IF p1 THEN @ ELSE c.v,
           !.read_byte_counter = IF read_result.ok /\ ~p2 THEN b.v ELSE @,
           !.seek_pos = IF read_result.ok /\ ~p3 THEN s.v ELSE @,
           !.iop_log = IF p3 THEN @
                       ELSE Append(@, IopInfoPair(IopActions_Read(len),
                                          IopResults("Read", read_result))),
           !.panicked = p3]

\* BufReader::read asks its reader for bytes only with an empty buffer: a
\* request of at least the capacity goes straight through, a smaller one
\* is served from a fill of the whole buffer
BufReader_needs_read(b) == b.pos = Len(b.buf)
BufReader_request(b, len) == IF len >= b.capacity THEN len ELSE b.capacity

\* BufReader::read, given what the reader answered if it was asked (fill)
BufReader_read(b, len, fill) ==
    IF BufReader_needs_read(b) /\ len >= b.capacity
    THEN [io |-> [b EXCEPT !.buf = <<>>, !.pos = 0],
          result |-> fill.result, buf |-> fill.buf]
    ELSE IF BufReader_needs_read(b) /\ ~fill.result.ok
    THEN [io |-> b, result |-> fill.result, buf |-> <<>>]
    ELSE LET filled == IF BufReader_needs_read(b)
                       THEN [b EXCEPT !.buf = fill.buf, !.pos = 0] ELSE b
             n == Min(len, Len(filled.buf) - filled.pos)
         IN  [io |-> [filled EXCEPT !.pos = @ + n],
              result |-> Ok(n),
              buf |-> SubSeq(filled.buf, filled.pos + 1, filled.pos + n)]

\* the loop of the examples ends when a read returns no bytes
Consumed ==
    /\ instrumented_buf_file.iop_log # <<>>
    /\ instrumented_buf_file.iop_log[Len(instrumented_buf_file.iop_log)].result.res
         = Ok(0)

raw == <<inner_io, iop_log, stats, debug_assertions, panicked, wrapped, ret,
         inner_calls, twin, twin_ret, ctr, nops>>

\* instrumented_buf_file.read(buf): the outer decorator calls the
\* BufReader, which calls the inner decorator when its buffer is empty
buffered_read(len) ==
    /\ ~instrumented_buf_file.panicked
    /\ ~Consumed
    /\ IF BufReader_needs_read(buffered_io)
       THEN read_through(BufReader_request(buffered_io, len), "none")
       ELSE UNCHANGED raw
    /\ IF panicked'
       THEN UNCHANGED layered
       ELSE LET r == BufReader_read(buffered_io, len, ret')
            IN  /\ buffered_io' = r.io
                /\ instrumented_buf_file'
                     = IOStatWrapper_read(instrumented_buf_file, len, r.result)

\* ----------------------------------------------------------- Write::write
\* a write that adds the bytes it wrote to the read byte total
write_adding_read_bytes(buf, fault) ==
    /\ CanCall
    /\ LET r == forward_write(inner_io, buf, fault)
           write_result == r.result
           n == write_result.val
           c == IF write_result.ok THEN increment_success(write_call_counter)
                                   ELSE increment_failure(write_call_counter)
           b == add_bytes(read_byte_counter, n)
           s == advance_seek_pos(seek_pos, n)
           p1 == Aborts(c.of)
           p2 == p1 \/ (write_result.ok /\ Aborts(b.of))
           p3 == p2 \/ (write_result.ok /\ (s.unwrap_none \/ Aborts(s.of)))
       IN  /\ inner_io' = r.io
           /\ inner_calls' = r.calls
           /\ write_call_counter' = IF p1 THEN write_call_counter ELSE c.v
           /\ read_byte_counter' = IF write_result.ok /\ ~p2 THEN b.v
                                                             ELSE read_byte_counter
           /\ seek_pos' = IF write_result.ok /\ ~p3 THEN s.v ELSE seek_pos
           /\ iop_log' = IF p3 THEN iop_log
                         ELSE Append(iop_log,
                                     IopInfoPair(IopActions_Write(Len(buf)),
                                                 IopResults("Write", write_result)))
           /\ panicked' = p3
           /\ ret' = returned(r, p3)
           /\ twin' = inner_write(twin, buf, fault).io
           /\ twin_ret' = Outcome(inner_write(twin, buf, fault))
    /\ nops' = nops + 1
    /\ UNCHANGED <<layered, read_call_counter, write_byte_counter, seek_call_counter,
                   write_flush_counter, debug_assertions, wrapped, ctr>>

write(buf, fault) ==
    /\ CanCall
    /\ LET r == forward_write(inner_io, buf, fault)
           write_result == r.result
           n == write_result.val
           c == IF write_result.ok THEN increment_success(write_call_counter)
                                   ELSE increment_failure(write_call_counter)
           b == add_bytes(write_byte_counter, n)
           s == advance_seek_pos(seek_pos, n)
           p1 == Aborts(c.of)
           p2 == p1 \/ (write_result.ok /\ Aborts(b.of))
           p3 == p2 \/ (write_result.ok /\ (s.unwrap_none \/ Aborts(s.of)))
       IN  /\ inner_io' = r.io
           /\ inner_calls' = r.calls
           /\ write_call_counter' = IF p1 THEN write_call_counter ELSE c.v
           /\ write_byte_counter' = IF write_result.ok /\ ~p2 THEN b.v
                                                              ELSE write_byte_counter
           /\ seek_pos' = IF write_result.ok /\ ~p3 THEN s.v ELSE seek_pos
           /\ iop_log' = IF p3 THEN iop_log
                         ELSE Append(iop_log,
                                     IopInfoPair(IopActions_Write(Len(buf)),
                                                 IopResults("Write", write_result)))
           /\ panicked' = p3
           /\ ret' = returned(r, p3)
           /\ twin' = inner_write(twin, buf, fault).io
           /\ twin_ret' = Outcome(inner_write(twin, buf, fault))
    /\ nops' = nops + 1
    /\ UNCHANGED <<layered, read_call_counter, read_byte_counter, seek_call_counter,
                   write_flush_counter, debug_assertions, wrapped, ctr>>

\* ----------------------------------------------------------- Write::flush
flush(fault) ==
    /\ CanCall
    /\ LET r == forward_flush(inner_io, fault)
           flush_result == r.result
           c == IF flush_result.ok THEN increment_success(write_flush_counter)
                                   ELSE increment_failure(write_flush_counter)
           p1 == Aborts(c.of)
       IN  /\ inner_io' = r.io
           /\ inner_calls' = r.calls
           /\ write_flush_counter' = IF p1 THEN write_flush_counter ELSE c.v
           /\ iop_log' = IF p1 THEN iop_log
                         ELSE Append(iop_log,
                                     IopInfoPair(IopActions_Flush,
                                                 IopResults("Flush", flush_result)))
           /\ panicked' = p1
           /\ ret' = returned(r, p1)
           /\ twin' = inner_flush(twin, fault).io
           /\ twin_ret' = Outcome(inner_flush(twin, fault))
    /\ nops' = nops + 1
    /\ UNCHANGED <<layered, read_call_counter, read_byte_counter, seek_call_counter, seek_pos,
                   write_call_counter, write_byte_counter, debug_assertions,
                   wrapped, ctr>>

\* ----------------------------------------------------------- Seek::seek
\* seek specifications the caller asks for
StartOffsets == {4, MaxU}
CurrentOffsets == {MinI, 0 - 1, 0, 4}
EndOffsets == {0 - 4}
SeekFroms == {Start(n) : n \in StartOffsets}
             \cup {Current(d) : d \in CurrentOffsets}
             \cup {End(d) : d \in EndOffsets}
SeekInputs == (SeekFroms \X {"none"}) \cup ({Start(4)} \X ErrorKinds)

\* the position the cross-check of a SeekFrom::Current(offset) expects:
\* old_pos, old_pos+a or old_pos-a by the arm of abs_sign_tuple(offset)
expected_pos(old_pos, offset) ==
    LET t == abs_sign_tuple(offset)
        e == IF t.sign = "Zero" THEN [v |-> old_pos, of |-> FALSE]
             ELSE IF t.sign = "Positive" THEN AddU(old_pos, t.mag)
             ELSE SubU(old_pos, t.mag)
    IN  [v |-> e.v, of |-> e.of, unwrap_none |-> t.panic]

\* whether the `if let SeekFrom::Current(offset)` block aborts the call:
\* abs_sign_tuple runs in every build, the debug_assert_eq! (and the
\* overflow check of its operand) only with debug assertions
cross_check_aborts(pos, old_pos, n) ==
    /\ pos.whence = "Current"
    /\ LET e == expected_pos(old_pos, pos.off)
       IN  e.unwrap_none \/ (debug_assertions /\ (e.of \/ e.v # n))

\* a seek that adds the returned position to the cursor, as a read does
seek_pos_added(old_pos, n) == (old_pos + n) % Modulus

\* self.seek_pos = n
seek_pos_after_seek(old_pos, n) == n

seek(pos, fault) ==
    /\ CanCall
    /\ LET old_pos == seek_pos
           r == forward_seek(inner_io, pos, fault)
           seek_result == r.result
           n == seek_result.val
           c == IF seek_result.ok THEN increment_success(seek_call_counter)
                                  ELSE increment_failure(seek_call_counter)
           p1 == Aborts(c.of)
           p2 == p1 \/ (seek_result.ok /\ cross_check_aborts(pos, old_pos, n))
       IN  /\ inner_io' = r.io
           /\ inner_calls' = r.calls
           /\ seek_call_counter' = IF p1 THEN seek_call_counter ELSE c.v
           /\ seek_pos' = IF seek_result.ok /\ ~p1
                          THEN seek_pos_after_seek(old_pos, n) ELSE seek_pos
           /\ iop_log' = IF p2 THEN iop_log
                         ELSE Append(iop_log,
                                     IopInfoPair(IopActions_Seek(pos),
                                                 IopResults("Seek", seek_result)))
           /\ panicked' = p2
           /\ ret' = returned(r, p2)
           /\ twin' = inner_seek(twin, pos, fault).io
           /\ twin_ret' = Outcome(inner_seek(twin, pos, fault))
    /\ nops' = nops + 1
    /\ UNCHANGED <<layered, read_call_counter, read_byte_counter, write_call_counter,
                   write_flush_counter, write_byte_counter, debug_assertions,
                   wrapped, ctr>>

\* ----------------------------------------------------------- the caller's own counter
\* amounts handed to add_successes / add_failures
Amounts == {1, MaxI, MaxU}

decorator == <<inner_io, iop_log, stats, wrapped, ret, inner_calls, twin, twin_ret>>

\* a mutator of ctr: the store happens unless the `+` aborted
ctr_call(c) ==
    /\ ~panicked /\ nops < MaxOps
    /\ ctr' = IF Aborts(c.of) THEN ctr ELSE c.v
    /\ panicked' = Aborts(c.of)
    /\ nops' = nops + 1
    /\ UNCHANGED <<layered, decorator, debug_assertions>>

ctr_increment_success == ctr_call(increment_success(ctr))
ctr_increment_failure == ctr_call(increment_failure(ctr))
ctr_add_successes == \E amount \in Amounts : ctr_call(add_successes(ctr, amount))
ctr_add_failures == \E amount \in Amounts : ctr_call(add_failures(ctr, amount))

\* ----------------------------------------------------------- into_inner
\* Extract the original I/O object: the decorator is consumed and the
\* caller holds self.inner_io
into_inner ==
    /\ CanCall
    /\ wrapped' = FALSE
    /\ inner_io' = inner_io
    /\ inner_calls' = <<>>
    /\ nops' = nops + 1
    /\ UNCHANGED <<layered, iop_log, stats, debug_assertions, panicked, ret, twin, twin_ret, ctr>>

\* calls the caller makes on the object it got back, and on the twin
UnwrappedCalls == {Call("read", 4, NoPos, <<>>),
                   Call("write", 4, NoPos, WriteBuf(4)),
                   Call("seek", 0, Current(0 - 1), <<>>)}

inner_call(io, call) ==
    IF call.op = "read" THEN inner_read(io, call.size, "none")
    ELSE IF call.op = "write" THEN inner_write(io, call.buf, "none")
    ELSE inner_seek(io, call.pos, "none")

unwrapped_call(call) ==
    /\ ~wrapped /\ nops < MaxOps
    /\ inner_io' = inner_call(inner_io, call).io
    /\ ret' = Outcome(inner_call(inner_io, call))
    /\ twin' = inner_call(twin, call).io
    /\ twin_ret' = Outcome(inner_call(twin, call))
    /\ nops' = nops + 1
    /\ UNCHANGED <<layered, iop_log, stats, debug_assertions, panicked, wrapped, inner_calls, ctr>>

\* ----------------------------------------------------------- provided methods
\* The provided methods of Read, Write and Seek as the wrapped object runs
\* them: loops over its own read, write and seek.  `fault` is how the first
\* of those calls ends; the later ones run on a working object.  Each
\* returns the object, the io::Result, the caller's bytes and the calls made.
RECURSIVE read_exact_loop(_, _, _, _, _)
read_exact_loop(io, remaining, fault, got, calls) ==
    IF remaining = 0 THEN Done(io, Ok(0), got, calls)
    ELSE LET r == inner_read(io, remaining, fault)
             made == Append(calls, Call("read", remaining, NoPos, <<>>))
         IN  IF r.result.ok
             THEN IF r.result.val = 0
                  THEN Done(r.io, Err("UnexpectedEof"), got, made)
                  ELSE read_exact_loop(r.io, remaining - r.result.val, "none",
                                       got \o r.buf, made)
             ELSE IF r.result.kind = "Interrupted"
                  THEN read_exact_loop(r.io, remaining, "none", got, made)
                  ELSE Done(r.io, r.result, got, made)

inner_read_exact(io, len, fault) == read_exact_loop(io, len, fault, <<>>, <<>>)

\* the size of the buffer read_to_end reads with
ProbeLen == 4 * BufLen

RECURSIVE read_to_end_loop(_, _, _, _)
read_to_end_loop(io, fault, got, calls) ==
    LET r == inner_read(io, ProbeLen, fault)
        made == Append(calls, Call("read", ProbeLen, NoPos, <<>>))
    IN  IF r.result.ok
        THEN IF r.result.val = 0
             THEN Done(r.io, Ok(Len(got)), got, made)
             ELSE read_to_end_loop(r.io, "none", got \o r.buf, made)
        ELSE IF r.result.kind = "Interrupted"
             THEN read_to_end_loop(r.io, "none", got, made)
             ELSE Done(r.io, r.result, got, made)

inner_read_to_end(io, fault) == read_to_end_loop(io, fault, <<>>, <<>>)

\* read_to_end, then the check that the bytes are UTF-8 (the bytes of
\* InitData are)
inner_read_to_string(io, fault) == inner_read_to_end(io, fault)

\* one read into the first buffer that is not empty
inner_read_vectored(io, lens, fault) ==
    LET nonempty == {i \in 1..Len(lens) : lens[i] > 0}
        len == IF nonempty = {} THEN 0
               ELSE lens[CHOOSE i \in nonempty : \A j \in nonempty : i <= j]
        r == inner_read(io, len, fault)
    IN  Done(r.io, r.result, r.buf, <<Call("read", len, NoPos, <<>>)>>)

RECURSIVE write_all_loop(_, _, _, _)
write_all_loop(io, buf, fault, calls) ==
    IF Len(buf) = 0 THEN Done(io, Ok(0), <<>>, calls)
    ELSE LET r == inner_write(io, buf, fault)
             made == Append(calls, Call("write", Len(buf), NoPos, buf))
         IN  IF r.result.ok
             THEN IF r.result.val = 0
                  THEN Done(r.io, Err("WriteZero"), <<>>, made)
                  ELSE write_all_loop(r.io, SubSeq(buf, r.result.val + 1, Len(buf)),
                                      "none", made)
             ELSE IF r.result.kind = "Interrupted"
                  THEN write_all_loop(r.io, buf, "none", made)
                  ELSE Done(r.io, r.result, <<>>, made)

inner_write_all(io, buf, fault) == write_all_loop(io, buf, fault, <<>>)

\* the formatted bytes go out through write_all
inner_write_fmt(io, buf, fault) == inner_write_all(io, buf, fault)

\* one write of the first buffer that is not empty
inner_write_vectored(io, bufs, fault) ==
    LET nonempty == {i \in 1..Len(bufs) : Len(bufs[i]) > 0}
        buf == IF nonempty = {} THEN <<>>
               ELSE bufs[CHOOSE i \in nonempty : \A j \in nonempty : i <= j]
        r == inner_write(io, buf, fault)
    IN  Done(r.io, r.result, <<>>, <<Call("write", Len(buf), NoPos, buf)>>)

\* self.seek(SeekFrom::Start(0))?; Ok(())
inner_rewind(io, fault) ==
    LET r == inner_seek(io, Start(0), fault)
    IN  Done(r.io, IF r.result.ok THEN Ok(0) ELSE r.result, <<>>,
             <<Call("seek", 0, Start(0), <<>>)>>)

\* Cursor answers from its position, without a seek
inner_stream_position(io) == Done(io, Ok(io.pos), <<>>, <<>>)

\* ----------------------------------------------------------- the passthroughs
\* self.inner_io.method(args): r is the method run on inner_io, t the same
\* method run on the twin.  Nothing of the decorator is touched.
passthrough(r, t) ==
    /\ CanCall
    /\ inner_io' = r.io
    /\ inner_calls' = r.calls
    /\ ret' = Outcome(r)
    /\ twin' = t.io
    /\ twin_ret' = Outcome(t)
    /\ nops' = nops + 1
    /\ UNCHANGED <<layered, iop_log, stats, debug_assertions, panicked, wrapped, ctr>>

read_vectored(lens, fault) ==
    passthrough(inner_read_vectored(inner_io, lens, fault),
                inner_read_vectored(twin, lens, fault))

read_to_end(fault) ==
    passthrough(inner_read_to_end(inner_io, fault), inner_read_to_end(twin, fault))

read_to_string(fault) ==
    passthrough(inner_read_to_string(inner_io, fault),
                inner_read_to_string(twin, fault))

read_exact(len, fault) ==
    passthrough(inner_read_exact(inner_io, len, fault),
                inner_read_exact(twin, len, fault))

rewind(fault) ==
    passthrough(inner_rewind(inner_io, fault), inner_rewind(twin, fault))

\* a position query carried out as a relative seek by zero
stream_position_seeking == seek(Current(0), "none")

stream_position ==
    passthrough(inner_stream_position(inner_io), inner_stream_position(twin))

write_vectored(bufs, fault) ==
    passthrough(inner_write_vectored(inner_io, bufs, fault),
                inner_write_vectored(twin, bufs, fault))

write_all(buf, fault) ==
    passthrough(inner_write_all(inner_io, buf, fault),
                inner_write_all(twin, buf, fault))

write_fmt(buf, fault) ==
    passthrough(inner_write_fmt(inner_io, buf, fault),
                inner_write_fmt(twin, buf, fault))

\* ----------------------------------------------------------- seek_pos()
\* the accessor takes &self and hands back the field
seek_pos_accessor ==
    /\ CanCall
    /\ ret' = [result |-> Ok(seek_pos), buf |-> <<>>]
    /\ inner_calls' = <<>>
    /\ nops' = nops + 1
    /\ UNCHANGED <<layered, inner_io, iop_log, stats, debug_assertions, panicked,
                   wrapped, twin, twin_ret, ctr>>

\* ----------------------------------------------------------- next-state relation
Primitive ==
    \/ \E in \in ReadInputs : read(in[1], in[2])
    \/ \E in \in WriteInputs : write(WriteBuf(in[1]), in[2])
    \/ \E in \in SeekInputs : seek(in[1], in[2])
    \/ \E fault \in Faults : flush(fault)

\* how the first call of a provided method ends
FirstFaults == {"none", "Interrupted"}

Convenience ==
    \/ \E fault \in FirstFaults : read_vectored(<<0, 4>>, fault)
    \/ \E fault \in FirstFaults : read_to_end(fault)
    \/ read_to_string("none")
    \/ \E fault \in FirstFaults : read_exact(4, fault)
    \/ \E fault \in FirstFaults : rewind(fault)
    \/ stream_position
    \/ write_vectored(<<WriteBuf(0), WriteBuf(4)>>, "none")
    \/ \E fault \in FirstFaults : write_all(WriteBuf(4), fault)
    \/ write_fmt(WriteBuf(4), "none")

Unwrap ==
    \/ into_inner
    \/ \E call \in UnwrappedCalls : unwrapped_call(call)

\* asking the decorator where the stream is
PositionQuery ==
    \/ stream_position
    \/ seek_pos_accessor

CounterOp ==
    \/ ctr_increment_success
    \/ ctr_increment_failure
    \/ ctr_add_successes
    \/ ctr_add_failures

\* every call the crate offers
Next ==
    \/ Primitive
    \/ Convenience
    \/ Unwrap
    \/ CounterOp
    \/ seek_pos_accessor

Spec == Init /\ [][Next]_vars

\* the primitive calls and the unwrapping
NextPrimitive ==
    \/ Primitive
    \/ Unwrap

SpecPrimitive == Init /\ [][NextPrimitive]_vars

\* the primitive calls on a decorator constructed at the real position
InitSynced == Init /\ seek_pos = inner_io.pos

SpecSynced == InitSynced /\ [][Primitive]_vars

\* the primitive calls and the position queries
NextPosition ==
    \/ Primitive
    \/ PositionQuery

SpecPosition == Init /\ [][NextPosition]_vars

\* the reads of the examples, shorter than the smallest capacity
SmallReads == {1, 2, 3}

NextLayered == \E len \in SmallReads : buffered_read(len)

\* a file consumed through decorator, BufReader and decorator
SpecLayered == InitLayered /\ [][NextLayered]_vars

\* the caller's counter alone
SpecCounter == Init /\ [][CounterOp]_vars

\* one working and one failing call of every family, next to the caller's
\* counter: the operations that add to a count or a byte total
Counting ==
    \/ \E fault \in FirstFaults : read(BufLen, fault)
    \/ \E fault \in FirstFaults : write(WriteBuf(4), fault)
    \/ \E fault \in FirstFaults : seek(Start(4), fault)
    \/ \E fault \in FirstFaults : flush(fault)

NextCounting ==
    \/ Counting
    \/ CounterOp

SpecCounting == Init /\ [][NextCounting]_vars

\* =========================================================== properties
\* the records of the log
LogIndex == DOMAIN iop_log
IsOk(i) == iop_log[i].result.res.ok
Last == iop_log[Len(iop_log)]

\* C1: a decorator constructed at the wrapped stream's real position has,
\* after any sequence of primitive read, write, seek and flush calls
\* (successful or failed), seek_pos() equal to the stream's real position.
C1_ShadowCursorIsRealPosition == seek_pos = inner_io.pos

\* a read, a seek and a failed call have happened and the cursor has moved
C1_Witness ==
    /\ seek_pos = inner_io.pos
    /\ seek_pos > 0
    /\ \E i \in LogIndex : iop_log[i].action.op = "Read" /\ IsOk(i)
    /\ \E i \in LogIndex : iop_log[i].action.op = "Seek" /\ IsOk(i)
    /\ \E i \in LogIndex : ~IsOk(i)

\* C2: every successful primitive read that returns n bytes adds exactly n
\* to read_byte_counter() and to the shadow cursor and one to the read
\* success counter (so a sequence of reads of total length L adds L).
C2_ReadAddsExactly ==
    [][\A in \in ReadInputs :
          (read(in[1], in[2]) /\ ret'.result.ok) =>
              /\ read_byte_counter' = read_byte_counter + ret'.result.val
              /\ seek_pos' = seek_pos + ret'.result.val
              /\ success_ctr(read_call_counter')
                   = success_ctr(read_call_counter) + 1]_vars

\* C3: after every seek the wrapped object answers with Ok(n), the shadow
\* cursor is n, whatever it held before and whatever was requested, and the
\* seek success counter is one higher.
C3_SeekReplacesCursor ==
    [][\A in \in SeekInputs :
          LET r == inner_seek(inner_io, in[1], in[2])
          IN  (seek(in[1], in[2]) /\ r.result.ok) =>
                  /\ seek_pos' = r.result.val
                  /\ success_ctr(seek_call_counter')
                       = success_ctr(seek_call_counter) + 1]_vars

\* the last call was a successful seek from the end, on a decorator whose
\* cursor did not start at the real position
C3_Witness ==
    /\ Len(iop_log) > 1
    /\ Last.action.pos.whence = "End"
    /\ Last.result.res.ok
    /\ seek_pos = Last.result.res.val
    /\ success_ctr(seek_call_counter) = 1

\* what C4 says of one SeekFrom::Current(d) the wrapped object answers with
\* Ok(n) when the shadow cursor is p: n = p + d in unbounded integers, and
\* the cross-check derives n from p and the (sign, magnitude) of d without
\* overflow, underflow or a failed conversion
RelativeSeekAgrees(p, d, n) ==
    LET e == expected_pos(p, d)
    IN  /\ n = p + d
        /\ e.v = n
        /\ ~e.of
        /\ ~e.unwrap_none

Counters == {read_call_counter, seek_call_counter, write_call_counter,
             write_flush_counter, ctr}

\* C5: for every counter, after any sequence of counter and decorator
\* operations, attempt_ctr() returns success_ctr() + failure_ctr() (the sum
\* in the counter's own arithmetic).
C5_AttemptIsSuccessPlusFailure ==
    \A c \in Counters :
        LET a == attempt_ctr(c)
        IN  /\ ~Aborts(a.of)
            /\ a.v = (success_ctr(c) + failure_ctr(c)) % Modulus

FailureFrame ==
    /\ seek_pos' = seek_pos
    /\ read_byte_counter' = read_byte_counter
    /\ write_byte_counter' = write_byte_counter

\* one failure more, no success more
OneFailure(before, after) ==
    /\ failure_ctr(after) = failure_ctr(before) + 1
    /\ success_ctr(after) = success_ctr(before)

\* C7: a primitive read, write or seek that fails adds one to the failure
\* counter of its family and nothing to its success counter, leaves the
\* shadow cursor and both byte totals, and appends exactly one record with
\* the requested action and the error kind.
C7_FailureIsCounted ==
    [][/\ \A in \in ReadInputs :
            LET r == inner_read(inner_io, in[1], in[2])
            IN  (read(in[1], in[2]) /\ ~r.result.ok) =>
                    /\ OneFailure(read_call_counter, read_call_counter')
                    /\ FailureFrame
                    /\ iop_log' = Append(iop_log,
                           IopInfoPair(IopActions_Read(in[1]),
                                       IopResults("Read", Err(r.result.kind))))
       /\ \A in \in WriteInputs :
            LET r == inner_write(inner_io, WriteBuf(in[1]), in[2])
            IN  (write(WriteBuf(in[1]), in[2]) /\ ~r.result.ok) =>
                    /\ OneFailure(write_call_counter, write_call_counter')
                    /\ FailureFrame
                    /\ iop_log' = Append(iop_log,
                           IopInfoPair(IopActions_Write(in[1]),
                                       IopResults("Write", Err(r.result.kind))))
       /\ \A in \in SeekInputs :
            LET r == inner_seek(inner_io, in[1], in[2])
            IN  (seek(in[1], in[2]) /\ ~r.result.ok) =>
                    /\ OneFailure(seek_call_counter, seek_call_counter')
                    /\ FailureFrame
                    /\ iop_log' = Append(iop_log,
                           IopInfoPair(IopActions_Seek(in[1]),
                                       IopResults("Seek", Err(r.result.kind))))]_vars

\* a read, a write and a seek have each failed once
C7_Witness ==
    /\ failure_ctr(read_call_counter) = 1
    /\ failure_ctr(write_call_counter) = 1
    /\ failure_ctr(seek_call_counter) = 1
    /\ Len(iop_log) = 3
    /\ Last.result.res = Err("InvalidInput")

\* C8: every primitive call on the decorator reaches the wrapped object
\* exactly once, with the caller's argument, also when that call fails, and
\* the wrapped object's error is what the caller gets.
C8_ForwardedOnceVerbatim ==
    [][/\ \A in \in ReadInputs :
            LET r == inner_read(inner_io, in[1], in[2])
            IN  read(in[1], in[2]) =>
                    /\ inner_calls' = <<Call("read", in[1], NoPos, <<>>)>>
                    /\ ~r.result.ok => (ret' = Outcome(r) /\ inner_io' = r.io)
       /\ \A in \in WriteInputs :
            LET r == inner_write(inner_io, WriteBuf(in[1]), in[2])
            IN  write(WriteBuf(in[1]), in[2]) =>
                    /\ inner_calls' = <<Call("write", in[1], NoPos, WriteBuf(in[1]))>>
                    /\ ~r.result.ok => (ret' = Outcome(r) /\ inner_io' = r.io)
       /\ \A in \in SeekInputs :
            LET r == inner_seek(inner_io, in[1], in[2])
            IN  seek(in[1], in[2]) =>
                    /\ inner_calls' = <<Call("seek", 0, in[1], <<>>)>>
                    /\ ~r.result.ok => (ret' = Outcome(r) /\ inner_io' = r.io)
       /\ \A fault \in Faults :
            LET r == inner_flush(inner_io, fault)
            IN  flush(fault) =>
                    /\ inner_calls' = <<Call("flush", 0, NoPos, <<>>)>>
                    /\ ~r.result.ok => (ret' = Outcome(r) /\ inner_io' = r.io)]_vars

\* an interrupted call and a would-block call were each made once and their
\* errors handed back
C8_Witness ==
    /\ Len(iop_log) = 2
    /\ iop_log[1].result.res = Err("Interrupted")
    /\ iop_log[2].result.res = Err("WouldBlock")
    /\ ret.result = Err("WouldBlock")
    /\ Len(inner_calls) = 1
    /\ inner_io = Cursor_new(InitData)

\* C9: every successful primitive write that reports n bytes adds one to
\* the write success counter, n to write_byte_counter() and to the shadow
\* cursor, and appends one Write record.
C9_WriteAddsExactly ==
    [][\A in \in WriteInputs :
          (write(WriteBuf(in[1]), in[2]) /\ ret'.result.ok) =>
              /\ success_ctr(write_call_counter')
                   = success_ctr(write_call_counter) + 1
              /\ write_byte_counter' = write_byte_counter + ret'.result.val
              /\ seek_pos' = seek_pos + ret'.result.val
              /\ iop_log' = Append(iop_log,
                     IopInfoPair(IopActions_Write(in[1]),
                                 IopResults("Write", ret'.result)))]_vars

\* the scenario of tests/wrapper_test.rs, which C9 ends with: read 8 bytes,
\* seek to 4, write 4 bytes on the 8-byte buffer wrapped at 0
C9_TestBasicCounts ==
    (iop_log = << IopInfoPair(IopActions_Read(BufLen), IopResults("Read", Ok(BufLen))),
                  IopInfoPair(IopActions_Seek(Start(4)), IopResults("Seek", Ok(4))),
                  IopInfoPair(IopActions_Write(4), IopResults("Write", Ok(4))) >>)
    => /\ read_call_counter = [success_ctr |-> 1, failure_ctr |-> 0]
       /\ seek_call_counter = [success_ctr |-> 1, failure_ctr |-> 0]
       /\ write_call_counter = [success_ctr |-> 1, failure_ctr |-> 0]
       /\ read_byte_counter = BufLen
       /\ write_byte_counter = 4
       /\ seek_pos = BufLen
       /\ seek_pos = inner_io.pos

\* the calls of one kind among those made on the wrapped object
CallsOf(op) == Cardinality({i \in DOMAIN inner_calls' : inner_calls'[i].op = op})

\* attempts counted by a step
Counted(before, after) ==
    (success_ctr(after) + failure_ctr(after))
      - (success_ctr(before) + failure_ctr(before))

\* C10: a convenience operation adds no record of its own, and every
\* primitive read, write or seek performed to carry it out is recorded
\* exactly once: in the log, in the counter of its family, and in the
\* shadow cursor, which goes on matching the real position.
C10_ConvenienceRecordedOnce ==
    [][Convenience =>
          /\ Len(iop_log') = Len(iop_log) + Len(inner_calls')
          /\ Counted(read_call_counter, read_call_counter') = CallsOf("read")
          /\ Counted(write_call_counter, write_call_counter') = CallsOf("write")
          /\ Counted(seek_call_counter, seek_call_counter') = CallsOf("seek")
          /\ seek_pos = inner_io.pos => seek_pos' = inner_io'.pos]_vars

\* C11: a counter addition that exceeds the maximum of the type wraps, the
\* same in every build: each mutator of a counter stores the sum modulo
\* 2^Bits and never aborts, and attempt_ctr() is the wrapped sum.
C11_CounterWraps ==
    [][/\ CounterOp => ~panicked'
       /\ ctr_increment_success =>
              success_ctr(ctr') = (success_ctr(ctr) + 1) % Modulus
       /\ ctr_increment_failure =>
              failure_ctr(ctr') = (failure_ctr(ctr) + 1) % Modulus
       /\ \A amount \in Amounts :
              ctr_call(add_successes(ctr, amount)) =>
                  success_ctr(ctr') = (success_ctr(ctr) + amount) % Modulus
       /\ \A amount \in Amounts :
              ctr_call(add_failures(ctr, amount)) =>
                  failure_ctr(ctr') = (failure_ctr(ctr) + amount) % Modulus
       /\ CounterOp => ~Aborts(attempt_ctr(ctr').of)]_vars


\* neither count of a counter is lower after the step
NonDecreasing(before, after) ==
    /\ success_ctr(after) >= success_ctr(before)
    /\ failure_ctr(after) >= failure_ctr(before)

\* the decorator's four counters and two byte totals are not lower
DecoratorNonDecreasing ==
    /\ NonDecreasing(read_call_counter, read_call_counter')
    /\ NonDecreasing(seek_call_counter, seek_call_counter')
    /\ NonDecreasing(write_call_counter, write_call_counter')
    /\ NonDecreasing(write_flush_counter, write_flush_counter')
    /\ read_byte_counter' >= read_byte_counter
    /\ write_byte_counter' >= write_byte_counter

\* the step is a counter mutator whose sum exceeds the maximum of the type
OverflowingCall ==
    \/ ctr_increment_success /\ increment_success(ctr).of
    \/ ctr_increment_failure /\ increment_failure(ctr).of
    \/ \E amount \in Amounts :
           ctr_call(add_successes(ctr, amount)) /\ add_successes(ctr, amount).of
    \/ \E amount \in Amounts :
           ctr_call(add_failures(ctr, amount)) /\ add_failures(ctr, amount).of

\* C12 as stated: the success and failure count of every counter and the
\* read and write byte totals are never lower after a counter operation or
\* a decorator operation than before it.
C12_NeverDecrease ==
    [][DecoratorNonDecreasing /\ NonDecreasing(ctr, ctr')]_vars

\* C12 amended: no count and no byte total is lower after an operation
\* whose additions fit the type; a counter mutator whose sum exceeds the
\* maximum aborts with the counts unchanged in a build with overflow checks
\* and stores the sum modulo 2^Bits, a lower count, in a build without.
C12_NeverDecreaseWithinType ==
    [][/\ DecoratorNonDecreasing
       /\ ~OverflowingCall => NonDecreasing(ctr, ctr')
       /\ OverflowingCall =>
              IF debug_assertions
              THEN ctr' = ctr /\ panicked'
              ELSE /\ success_ctr(ctr') + failure_ctr(ctr')
                        < success_ctr(ctr) + failure_ctr(ctr)
                   /\ \E amount \in Amounts :
                          \/ ctr' = [ctr EXCEPT !.success_ctr
                                       = (@ + amount) % Modulus]
                          \/ ctr' = [ctr EXCEPT !.failure_ctr
                                       = (@ + amount) % Modulus]]_vars

\* a counter was filled to the maximum of the type and counted a failure,
\* and a read moved bytes, without any addition leaving the type
C12_Witness ==
    /\ ~panicked
    /\ success_ctr(ctr) = MaxU
    /\ failure_ctr(ctr) = 1
    /\ read_byte_counter = BufLen
    /\ success_ctr(read_call_counter) = 1


\* C13: a read or write the wrapped object answers with Ok(n) aborts only
\* when n does not fit the cursor type, and otherwise adds n to the byte
\* total and to the shadow cursor without wrapping; the cross-check of a
\* relative seek computes its expected position inside the type and aborts
\* only to report that the returned position disagrees with it.
C13_OnlyConversionAborts ==
    [][/\ \A in \in ReadInputs :
              LET r == inner_read(inner_io, in[1], in[2])
                  n == r.result.val
              IN  (read(in[1], in[2]) /\ r.result.ok) =>
                      /\ panicked' => ~u64_try_from(n).some
                      /\ ~panicked' =>
                             /\ seek_pos' = seek_pos + n
                             /\ read_byte_counter' = read_byte_counter + n
       /\ \A in \in WriteInputs :
              LET r == inner_write(inner_io, WriteBuf(in[1]), in[2])
                  n == r.result.val
              IN  (write(WriteBuf(in[1]), in[2]) /\ r.result.ok) =>
                      /\ panicked' => ~u64_try_from(n).some
                      /\ ~panicked' =>
                             /\ seek_pos' = seek_pos + n
                             /\ write_byte_counter' = write_byte_counter + n
       /\ \A in \in SeekInputs :
              LET r == inner_seek(inner_io, in[1], in[2])
                  e == expected_pos(seek_pos, in[1].off)
              IN  (seek(in[1], in[2]) /\ r.result.ok) =>
                      IF in[1].whence = "Current"
                      THEN /\ ~e.of
                           /\ ~e.unwrap_none
                           /\ panicked' => e.v # r.result.val
                      ELSE ~panicked']_vars


\* C14: a position query, stream_position() on the decorator or the
\* seek_pos() accessor, issues no seek on the wrapped object and leaves
\* the log, the shadow cursor, the four counters, both byte totals and the
\* wrapped object as they were; stream_position() answers with the real
\* position and seek_pos() with the shadow cursor.
C14_PositionQueryNotRecorded ==
    [][/\ PositionQuery =>
              /\ UNCHANGED <<iop_log, stats, inner_io>>
              /\ inner_calls' = <<>>
              /\ ~panicked'
       /\ stream_position => ret'.result = Ok(inner_io.pos)
       /\ seek_pos_accessor => ret'.result = Ok(seek_pos)]_vars

\* the position was asked for after a seek and a read had been recorded,
\* and the answer is the cursor both of them left
C14_Witness ==
    /\ ~panicked
    /\ Len(iop_log) = 2
    /\ nops = 3
    /\ success_ctr(seek_call_counter) = 1
    /\ success_ctr(read_call_counter) = 1
    /\ inner_calls = <<>>
    /\ ret.result = Ok(seek_pos)
    /\ seek_pos = BufLen


\* one success more, no failure more
OneSuccess(before, after) ==
    /\ success_ctr(after) = success_ctr(before) + 1
    /\ failure_ctr(after) = failure_ctr(before)

\* C16: every flush adds one to the flush counter's success count when the
\* wrapped object answers Ok and one to its failure count when it answers
\* Err, never both, appends exactly one Flush record with that outcome,
\* and leaves the shadow cursor, both byte totals and the read, seek and
\* write counters unchanged.
C16_FlushCountsOnce ==
    [][\A fault \in Faults :
          LET r == inner_flush(inner_io, fault)
          IN  flush(fault) =>
                  /\ IF r.result.ok
                     THEN OneSuccess(write_flush_counter, write_flush_counter')
                     ELSE OneFailure(write_flush_counter, write_flush_counter')
                  /\ Len(iop_log') = Len(iop_log) + 1
                  /\ SubSeq(iop_log', 1, Len(iop_log)) = iop_log
                  /\ iop_log'[Len(iop_log')].action
                         = [op |-> "Flush", size |-> 0, pos |-> NoPos]
                  /\ iop_log'[Len(iop_log')].result
                         = [op |-> "Flush", res |-> r.result]
                  /\ FailureFrame
                  /\ UNCHANGED <<read_call_counter, seek_call_counter,
                                 write_call_counter>>]_vars

\* after a write, one flush went through and one failed
C16_Witness ==
    /\ write_byte_counter = 4
    /\ success_ctr(write_flush_counter) = 1
    /\ failure_ctr(write_flush_counter) = 1
    /\ Last.action.op = "Flush"
    /\ Last.result.res = Err("WouldBlock")


\* the record of one call: the action as requested, the result as answered
RecordOf(action, op, res) ==
    [action |-> action, result |-> [op |-> op, res |-> res]]

\* the log after the step is the log before it followed by the record
Appends(record) == iop_log' = Append(iop_log, record)

\* the step aborted and left the log as it was
AbortsUnlogged == panicked' /\ iop_log' = iop_log

Classified(d) ==
    LET t == abs_sign_tuple(d)
    IN  /\ ~t.panic
        /\ t.sign = "Zero" <=> d = 0
        /\ t.sign = "Positive" <=> d > 0
        /\ t.sign = "Negative" <=> d < 0
        /\ t.mag = IF d < 0 THEN 0 - d ELSE d
        /\ t.mag \in 0..MaxU
        /\ d = MinI => t.mag = MaxI + 1

\* C18: abs_sign_tuple classifies every signed value of the width three
\* ways with its exact unsigned magnitude and never fails. The function
\* is pure: every value of the width is classified before the first call,
\* and every offset a relative seek has handed to it afterwards.
C18_AbsSignTupleClassifies ==
    /\ nops = 0 => \A d \in MinI..MaxI : Classified(d)
    /\ \A i \in LogIndex :
           iop_log[i].action.pos.whence = "Current"
               => Classified(iop_log[i].action.pos.off)

\* in a build with debug assertions the cross-check has classified the
\* minimum value and then a positive offset, and agreed with the stream
C18_Witness ==
    /\ debug_assertions
    /\ ~panicked
    /\ Len(iop_log) = 3
    /\ iop_log[2].action.pos = Current(MinI)
    /\ iop_log[2].result.res = Ok(MaxU + MinI)
    /\ Last.action.pos = Current(4)
    /\ Last.result.res = Ok(MaxU + MinI + 4)
    /\ abs_sign_tuple(iop_log[2].action.pos.off).mag = MaxI + 1


\* the records of one family with one kind of outcome
Records(op, ok) == {i \in LogIndex : iop_log[i].action.op = op /\ IsOk(i) = ok}

\* the sum of n over the Ok(n) records of one family among the first k
RECURSIVE SumOk(_, _)
SumOk(op, k) ==
    IF k = 0 THEN 0
    ELSE SumOk(op, k - 1)
           + (IF iop_log[k].action.op = op /\ iop_log[k].result.res.ok
              THEN iop_log[k].result.res.val ELSE 0)

\* a counter holds the numbers of Ok and of Err records of its family
CounterAgrees(c, op) ==
    /\ success_ctr(c) = Cardinality(Records(op, TRUE))
    /\ failure_ctr(c) = Cardinality(Records(op, FALSE))

\* calls counted by the four counters
Attempts ==
    attempt_ctr(read_call_counter).v + attempt_ctr(seek_call_counter).v
      + attempt_ctr(write_call_counter).v + attempt_ctr(write_flush_counter).v

LogAgreesWithStatistics ==
    /\ CounterAgrees(read_call_counter, "Read")
    /\ CounterAgrees(seek_call_counter, "Seek")
    /\ CounterAgrees(write_call_counter, "Write")
    /\ CounterAgrees(write_flush_counter, "Flush")
    /\ Len(iop_log) = Attempts
    /\ read_byte_counter = SumOk("Read", Len(iop_log))
    /\ write_byte_counter = SumOk("Write", Len(iop_log))

NewlyConstructed ==
    /\ iop_log = <<>>
    /\ \A c \in {read_call_counter, seek_call_counter, write_call_counter,
                 write_flush_counter} :
           success_ctr(c) = 0 /\ failure_ctr(c) = 0
    /\ read_byte_counter = 0
    /\ write_byte_counter = 0
    /\ seek_pos \in StartPositions

\* C20: a newly constructed decorator has every counter and both byte
\* totals at zero and the shadow cursor at the given starting position; a
\* read leaves the seek, write and flush counters and the write byte
\* total, a write leaves the read, seek and flush counters and the read
\* byte total, a seek leaves the read, write and flush counters and both
\* byte totals.
C20_OwnFamilyOnly ==
    /\ NewlyConstructed
    /\ [][/\ (\E in \in ReadInputs : read(in[1], in[2])) =>
                 UNCHANGED <<seek_call_counter, write_call_counter,
                             write_flush_counter, write_byte_counter>>
          /\ (\E in \in WriteInputs : write(WriteBuf(in[1]), in[2])) =>
                 UNCHANGED <<read_call_counter, seek_call_counter,
                             write_flush_counter, read_byte_counter>>
          /\ (\E in \in SeekInputs : seek(in[1], in[2])) =>
                 UNCHANGED <<read_call_counter, write_call_counter,
                             write_flush_counter, read_byte_counter,
                             write_byte_counter>>]_vars

\* a read, a seek and a write went through, each counted once in its own
\* family and nowhere else
C20_Witness ==
    /\ Len(iop_log) = 3
    /\ iop_log[1].action.op = "Read"
    /\ iop_log[2].action.op = "Seek"
    /\ iop_log[3].action.op = "Write"
    /\ read_call_counter = [success_ctr |-> 1, failure_ctr |-> 0]
    /\ seek_call_counter = [success_ctr |-> 1, failure_ctr |-> 0]
    /\ write_call_counter = [success_ctr |-> 1, failure_ctr |-> 0]
    /\ write_flush_counter = SuccessFailureCounter_default
    /\ read_byte_counter = 4
    /\ write_byte_counter = 4
    /\ seek_pos = BufLen


\* successful reads each decorator of the layered set-up has counted
OuterReads == success_ctr(instrumented_buf_file.read_call_counter)
InnerReads == success_ctr(read_call_counter)

====
